---- MODULE Spec2Model ----
(***************************************************************************)
(* Request validation and handlers of the FastAPI demo in src/main.py.     *)
(*                                                                         *)
(* The schemas (pydantic models, Path/Body parameter declarations), the    *)
(* handlers and fake_items_db are translated from src/main.py.  The engine *)
(* that interprets a schema against a raw input (validate) is not part of  *)
(* src/main.py; it is modelled from section 4.1 of spec.md.                *)
(*                                                                         *)
(* Strings that are request data are sequences of one-character strings,   *)
(* so that parsing and formatting are computed and not assumed.  Numbers   *)
(* are exact decimals [m, e] standing for m / 10^e, normalised so that m   *)
(* has no trailing zero when e > 0.                                        *)
(***************************************************************************)
EXTENDS Integers, Sequences, FiniteSets, TLC

VARIABLES pc, route, raw, errors, coerced, response, fake_items_db

vars == <<pc, route, raw, errors, coerced, response, fake_items_db>>

(***************************************************************************)
(* Bounds of the model.                                                    *)
(***************************************************************************)
MaxTags == 3
MaxItems == 2

(***************************************************************************)
(* Raw (untyped) values and coerced (typed) values.                        *)
(***************************************************************************)
RNull == [k |-> "null"]
RStr(s) == [k |-> "str", s |-> s]
RNum(m, e) == [k |-> "num", m |-> m, e |-> e]
RBool(b) == [k |-> "bool", b |-> b]
RList(xs) == [k |-> "list", xs |-> xs]
RObj(o) == [k |-> "obj", o |-> o]

VNone == [k |-> "none"]
VStr(s) == [k |-> "str", s |-> s]
VNum(m, e) == [k |-> "num", m |-> m, e |-> e]
VBool(b) == [k |-> "bool", b |-> b]
VSet(S) == [k |-> "set", S |-> S]
VList(xs) == [k |-> "list", xs |-> xs]
VObj(o) == [k |-> "obj", o |-> o]

EmptyMap == [x \in {} |-> x]

(***************************************************************************)
(* Decimal numbers: parsing from and formatting to character sequences.    *)
(***************************************************************************)
Digits == <<"0", "1", "2", "3", "4", "5", "6", "7", "8", "9">>

IsDigit(c) == \E i \in 1..10 : Digits[i] = c

DigitVal(c) == (CHOOSE i \in 1..10 : Digits[i] = c) - 1

AllDigits(s) == \A i \in 1..Len(s) : IsDigit(s[i])

RECURSIVE DigitsVal(_)
DigitsVal(s) ==
  IF s = <<>> THEN 0
  ELSE 10 * DigitsVal(SubSeq(s, 1, Len(s) - 1)) + DigitVal(s[Len(s)])

RECURSIVE Normalise(_, _)
Normalise(m, e) ==
  IF e > 0 /\ m % 10 = 0 THEN Normalise(m \div 10, e - 1)
  ELSE [m |-> m, e |-> e]

Pow10(e) == IF e = 0 THEN 1 ELSE IF e = 1 THEN 10 ELSE IF e = 2 THEN 100 ELSE 1000

StripSign(s) ==
  IF s # <<>> /\ s[1] \in {"-", "+"} THEN Tail(s) ELSE s

IsNegative(s) == s # <<>> /\ s[1] = "-"

PointAt(s) ==
  IF \E i \in 1..Len(s) : s[i] = "."
  THEN CHOOSE i \in 1..Len(s) : s[i] = "." /\ \A j \in 1..(i - 1) : s[j] # "."
  ELSE 0

\* int(s): an optional sign and at least one digit.
ParseInt(s) ==
  LET body == StripSign(s)
  IN IF body # <<>> /\ AllDigits(body)
     THEN [ok |-> TRUE,
           m |-> IF IsNegative(s) THEN 0 - DigitsVal(body) ELSE DigitsVal(body),
           e |-> 0]
     ELSE [ok |-> FALSE, m |-> 0, e |-> 0]

\* float(s): an optional sign, digits, and optionally a point and digits.
ParseFloat(s) ==
  LET body == StripSign(s)
      p == PointAt(body)
      ip == IF p = 0 THEN body ELSE SubSeq(body, 1, p - 1)
      fp == IF p = 0 THEN <<>> ELSE SubSeq(body, p + 1, Len(body))
      mag == Normalise(DigitsVal(ip \o fp), Len(fp))
  IN IF (ip \o fp) # <<>> /\ AllDigits(ip) /\ AllDigits(fp)
     THEN [ok |-> TRUE,
           m |-> IF IsNegative(s) THEN 0 - mag.m ELSE mag.m,
           e |-> mag.e]
     ELSE [ok |-> FALSE, m |-> 0, e |-> 0]

RECURSIVE FormatNat(_)
FormatNat(n) ==
  IF n < 10 THEN <<Digits[n + 1]>>
  ELSE FormatNat(n \div 10) \o <<Digits[(n % 10) + 1]>>

RECURSIVE PadLeft(_, _)
PadLeft(s, n) == IF Len(s) >= n THEN s ELSE PadLeft(<<"0">> \o s, n)

\* The decimal text of m / 10^e.
FormatNum(m, e) ==
  LET a == IF m < 0 THEN 0 - m ELSE m
      ds == PadLeft(FormatNat(a), e + 1)
      ip == SubSeq(ds, 1, Len(ds) - e)
      fp == SubSeq(ds, Len(ds) - e + 1, Len(ds))
  IN (IF m < 0 THEN <<"-">> ELSE <<>>) \o ip
       \o (IF e > 0 THEN <<".">> \o fp ELSE <<>>)

\* m / 10^e compared with the integer bound b.
NumGt(v, b) == v.m > b * Pow10(v.e)
NumGe(v, b) == v.m >= b * Pow10(v.e)
NumLt(v, b) == v.m < b * Pow10(v.e)
NumLe(v, b) == v.m <= b * Pow10(v.e)

(***************************************************************************)
(* Character sequences used by the schemas and the requests.               *)
(***************************************************************************)
Repeat(c, n) == [i \in 1..n |-> c]

S_alexnet == <<"a", "l", "e", "x", "n", "e", "t">>
S_resnet == <<"r", "e", "s", "n", "e", "t">>
S_lenet == <<"l", "e", "n", "e", "t">>
S_vgg == <<"v", "g", "g">>
S_AlexNet == <<"A", "l", "e", "x", "N", "e", "t">>
S_created_at == <<"c", "r", "e", "a", "t", "e", "d", "_", "a", "t">>
S_updated_at == <<"u", "p", "d", "a", "t", "e", "d", "_", "a", "t">>
S_name == <<"n", "a", "m", "e">>
S_Foo == <<"F", "o", "o">>
S_http == <<"h", "t", "t", "p", ":", "/", "/">>
S_https == <<"h", "t", "t", "p", "s", ":", "/", "/">>
S_true == <<"t", "r", "u", "e">>
S_false == <<"f", "a", "l", "s", "e">>

(***************************************************************************)
(* Declared types and field declarations.                                  *)
(***************************************************************************)
TStr == [t |-> "str"]
TInt == [t |-> "int"]
TFloat == [t |-> "float"]
TBool == [t |-> "bool"]
TUrl == [t |-> "url"]
TEnum(allowed) == [t |-> "enum", allowed |-> allowed]
TList(elem) == [t |-> "list", elem |-> elem]
TSet(elem) == [t |-> "set", elem |-> elem]
TObj(schema) == [t |-> "obj", schema |-> schema]

\* Each constraint is the set of its declared bounds: {} when not declared.
NoCons == [gt |-> {}, ge |-> {}, lt |-> {}, le |-> {},
           min_length |-> {}, max_length |-> {}]

\* A field without a default (required).
Req(name, type, cons) ==
  [name |-> name, type |-> type, required |-> TRUE, nullable |-> FALSE,
   default |-> VNone, cons |-> cons]

\* A field with a default value.
Dflt(name, type, nullable, default, cons) ==
  [name |-> name, type |-> type, required |-> FALSE, nullable |-> nullable,
   default |-> default, cons |-> cons]

(***************************************************************************)
(* The schemas of src/main.py, in declaration order.                       *)
(***************************************************************************)
Cookies ==
  [fields |-> << Dflt("session_id", TStr, TRUE, VNone, NoCons),
                 Dflt("fatebook_tracker", TStr, TRUE, VNone, NoCons),
                 Dflt("googall_tracker", TStr, TRUE, VNone, NoCons) >>,
   extra_forbid |-> FALSE]

CommonHeaders ==
  [fields |-> << Dflt("accept", TStr, TRUE, VNone, NoCons),
                 Dflt("host", TStr, TRUE, VNone, NoCons),
                 Dflt("save_data", TBool, TRUE, VNone, NoCons),
                 Dflt("if_modified_since", TStr, TRUE, VNone, NoCons),
                 Dflt("traceparent", TStr, TRUE, VNone, NoCons),
                 Dflt("x_tag", TList(TStr), FALSE, VList(<<>>), NoCons) >>,
   extra_forbid |-> FALSE]

ModelName_WithVgg == <<S_alexnet, S_resnet, S_lenet, S_vgg>>

ModelName == <<S_alexnet, S_resnet, S_lenet>>

Image ==
  [fields |-> << Req("url", TUrl, NoCons),
                 Req("name", TStr, NoCons) >>,
   extra_forbid |-> FALSE]

Item_NameOptional ==
  [fields |-> << Dflt("name", TStr, TRUE, VNone, NoCons),
                 Dflt("description", TStr, TRUE, VNone,
                      [NoCons EXCEPT !.max_length = {300}]),
                 Req("price", TFloat, [NoCons EXCEPT !.gt = {0}]),
                 Dflt("tax", TFloat, TRUE, VNone, NoCons),
                 Dflt("tags", TSet(TStr), FALSE, VSet({}), NoCons),
                 Dflt("images", TList(TObj("Image")), TRUE, VNone, NoCons) >>,
   extra_forbid |-> FALSE]

Item_PriceGe ==
  [fields |-> << Req("name", TStr, NoCons),
                 Dflt("description", TStr, TRUE, VNone,
                      [NoCons EXCEPT !.max_length = {300}]),
                 Req("price", TFloat, [NoCons EXCEPT !.ge = {0}]),
                 Dflt("tax", TFloat, TRUE, VNone, NoCons),
                 Dflt("tags", TSet(TStr), FALSE, VSet({}), NoCons),
                 Dflt("images", TList(TObj("Image")), TRUE, VNone, NoCons) >>,
   extra_forbid |-> FALSE]

Item_TagsList ==
  [fields |-> << Req("name", TStr, NoCons),
                 Dflt("description", TStr, TRUE, VNone,
                      [NoCons EXCEPT !.max_length = {300}]),
                 Req("price", TFloat, [NoCons EXCEPT !.gt = {0}]),
                 Dflt("tax", TFloat, TRUE, VNone, NoCons),
                 Dflt("tags", TList(TStr), FALSE, VList(<<>>), NoCons),
                 Dflt("images", TList(TObj("Image")), TRUE, VNone, NoCons) >>,
   extra_forbid |-> FALSE]

Item ==
  [fields |-> << Req("name", TStr, NoCons),
                 Dflt("description", TStr, TRUE, VNone,
                      [NoCons EXCEPT !.max_length = {300}]),
                 Req("price", TFloat, [NoCons EXCEPT !.gt = {0}]),
                 Dflt("tax", TFloat, TRUE, VNone, NoCons),
                 Dflt("tags", TSet(TStr), FALSE, VSet({}), NoCons),
                 Dflt("images", TList(TObj("Image")), TRUE, VNone, NoCons) >>,
   extra_forbid |-> FALSE]

Offer_PriceFirst ==
  [fields |-> << Req("price", TFloat, [NoCons EXCEPT !.gt = {0}]),
                 Req("name", TStr, NoCons),
                 Dflt("description", TStr, TRUE, VNone,
                      [NoCons EXCEPT !.max_length = {300}]),
                 Req("items", TList(TObj("Item")), NoCons) >>,
   extra_forbid |-> FALSE]

Offer ==
  [fields |-> << Req("name", TStr, NoCons),
                 Dflt("description", TStr, TRUE, VNone,
                      [NoCons EXCEPT !.max_length = {300}]),
                 Req("price", TFloat, [NoCons EXCEPT !.gt = {0}]),
                 Req("items", TList(TObj("Item")), NoCons) >>,
   extra_forbid |-> FALSE]

BaseUser ==
  [fields |-> << Req("username", TStr, NoCons),
                 Dflt("full_name", TStr, TRUE, VNone, NoCons) >>,
   extra_forbid |-> FALSE]

FilterParams_ExtraIgnored ==
  [fields |-> << Dflt("limit", TInt, FALSE, VNum(100, 0),
                      [NoCons EXCEPT !.gt = {0}, !.le = {100}]),
                 Dflt("offset", TInt, FALSE, VNum(0, 0),
                      [NoCons EXCEPT !.ge = {0}]),
                 Dflt("order_by", TEnum(<<S_created_at, S_updated_at>>), FALSE,
                      VStr(S_created_at), NoCons),
                 Dflt("tags", TList(TStr), FALSE, VList(<<>>), NoCons) >>,
   extra_forbid |-> FALSE]

FilterParams_LimitDefaultZero ==
  [fields |-> << Dflt("limit", TInt, FALSE, VNum(0, 0),
                      [NoCons EXCEPT !.gt = {0}, !.le = {100}]),
                 Dflt("offset", TInt, FALSE, VNum(0, 0),
                      [NoCons EXCEPT !.ge = {0}]),
                 Dflt("order_by", TEnum(<<S_created_at, S_updated_at>>), FALSE,
                      VStr(S_created_at), NoCons),
                 Dflt("tags", TList(TStr), FALSE, VList(<<>>), NoCons) >>,
   extra_forbid |-> TRUE]

FilterParams ==
  [fields |-> << Dflt("limit", TInt, FALSE, VNum(100, 0),
                      [NoCons EXCEPT !.gt = {0}, !.le = {100}]),
                 Dflt("offset", TInt, FALSE, VNum(0, 0),
                      [NoCons EXCEPT !.ge = {0}]),
                 Dflt("order_by", TEnum(<<S_created_at, S_updated_at>>), FALSE,
                      VStr(S_created_at), NoCons),
                 Dflt("tags", TList(TStr), FALSE, VList(<<>>), NoCons) >>,
   extra_forbid |-> TRUE]

(***************************************************************************)
(* The parameter declarations of the handlers.                             *)
(***************************************************************************)
read_items_params ==
  [fields |-> << Req("filter_query", TObj("FilterParams"), NoCons),
                 Req("ads_id", TObj("Cookies"), NoCons),
                 Req("headers", TObj("CommonHeaders"), NoCons) >>,
   extra_forbid |-> FALSE]

read_item_params_LeThree ==
  [fields |-> << Req("item_id", TInt, [NoCons EXCEPT !.ge = {0}, !.le = {3}]) >>,
   extra_forbid |-> FALSE]

read_item_params ==
  [fields |-> << Req("item_id", TInt, [NoCons EXCEPT !.ge = {0}, !.le = {2}]) >>,
   extra_forbid |-> FALSE]

get_model_params ==
  [fields |-> << Req("model_name", TEnum(ModelName), NoCons) >>,
   extra_forbid |-> FALSE]

update_item_params ==
  [fields |-> << Req("item_id", TInt, [NoCons EXCEPT !.ge = {0}, !.le = {1000}]),
                 Req("importance", TInt, [NoCons EXCEPT !.ge = {1}, !.le = {10}]),
                 Dflt("item", TObj("Item"), TRUE, VNone, NoCons),
                 Dflt("user", TObj("BaseUser"), TRUE, VNone, NoCons) >>,
   extra_forbid |-> FALSE]

\* The schema a name denotes.  create_item and create_offer take one body
\* parameter, so their request body is the Item or the Offer itself.
SchemaOf(name) ==
  CASE name = "Cookies" -> Cookies
    [] name = "CommonHeaders" -> CommonHeaders
    [] name = "Image" -> Image
    [] name \in {"Item", "create_item"} -> Item
    [] name \in {"Offer", "create_offer"} -> Offer
    [] name = "BaseUser" -> BaseUser
    [] name = "FilterParams" -> FilterParams
    [] name = "read_items" -> read_items_params
    [] name = "read_item" -> read_item_params
    [] name = "get_model" -> get_model_params
    [] name = "update_item" -> update_item_params

(***************************************************************************)
(* The validation and coercion engine: validate(schema, raw).              *)
(***************************************************************************)
Err(path, kind, msg) == [path |-> path, kind |-> kind, msg |-> msg]

Coerced(v) == [errs |-> <<>>, val |-> v]

Mismatch(path) == [errs |-> <<Err(path, "TypeMismatch", <<>>)>>, val |-> VNone]

ErrIf(cond, e) == IF cond THEN <<e>> ELSE <<>>

\* The path element of the element at (0-based) index i of a sequence.
IdxName(i) == Digits[i + 1]

RECURSIVE SetToSeq(_)
SetToSeq(S) ==
  IF S = {} THEN <<>>
  ELSE LET x == CHOOSE y \in S : TRUE IN <<x>> \o SetToSeq(S \ {x})

HasPrefix(s, p) == Len(s) > Len(p) /\ SubSeq(s, 1, Len(p)) = p

ParseBool(s) ==
  IF s \in {S_true, <<"1">>} THEN [ok |-> TRUE, b |-> TRUE]
  ELSE IF s \in {S_false, <<"0">>} THEN [ok |-> TRUE, b |-> FALSE]
  ELSE [ok |-> FALSE, b |-> FALSE]

\* Step 4: range (gt/ge/lt/le), then length (min/max); one error for each
\* violated constraint.  No schema of the program declares a pattern.
CheckConstraints(cons, val, path) ==
  LET isnum == val.k = "num"
      haslen == val.k \in {"str", "list", "set"}
      len == IF val.k = "str" THEN Len(val.s)
             ELSE IF val.k = "list" THEN Len(val.xs)
             ELSE IF val.k = "set" THEN Cardinality(val.S)
             ELSE 0
  IN ErrIf(isnum /\ \E b \in cons.gt : ~NumGt(val, b), Err(path, "OutOfRange", <<>>))
     \o ErrIf(isnum /\ \E b \in cons.ge : ~NumGe(val, b), Err(path, "OutOfRange", <<>>))
     \o ErrIf(isnum /\ \E b \in cons.lt : ~NumLt(val, b), Err(path, "OutOfRange", <<>>))
     \o ErrIf(isnum /\ \E b \in cons.le : ~NumLe(val, b), Err(path, "OutOfRange", <<>>))
     \o ErrIf(haslen /\ \E b \in cons.min_length : len < b, Err(path, "TooShort", <<>>))
     \o ErrIf(haslen /\ \E b \in cons.max_length : len > b, Err(path, "TooLong", <<>>))

\* The results of the engine's steps are combined by operators of their
\* own, so that each recursive result is written (and evaluated) once.
NumResult(p, path) == IF p.ok THEN Coerced(VNum(p.m, p.e)) ELSE Mismatch(path)

BoolResult(p, path) == IF p.ok THEN Coerced(VBool(p.b)) ELSE Mismatch(path)

ObjResult(r) == [errs |-> r.errs, val |-> VObj(r.val)]

ListResult(r) == [errs |-> r.errs, val |-> VList(r.vals)]

\* Set semantics: duplicates are removed once every element has coerced.
SetResult(r) ==
  [errs |-> r.errs,
   val |-> IF r.errs = <<>> THEN VSet({r.vals[i] : i \in 1..Len(r.vals)})
           ELSE VNone]

ElemsResult(h, t) == [errs |-> h.errs \o t.errs, vals |-> <<h.val>> \o t.vals]

FieldResult(f, c, path) ==
  IF c.errs # <<>> THEN c
  ELSE [errs |-> CheckConstraints(f.cons, c.val, path), val |-> c.val]

FieldsResult(name, h, t) ==
  [errs |-> h.errs \o t.errs, val |-> (name :> h.val) @@ t.val]

SchemaResult(r, extra) == [errs |-> r.errs \o extra, val |-> r.val]

RECURSIVE Coerce(_, _, _)
RECURSIVE CoerceElems(_, _, _, _)
RECURSIVE ValidateFields(_, _, _, _)
RECURSIVE Validate(_, _, _)

\* Step 3: the raw value rawv coerced to the declared type.
Coerce(type, rawv, path) ==
  CASE type.t = "str" ->
         IF rawv.k = "str" THEN Coerced(VStr(rawv.s)) ELSE Mismatch(path)
    [] type.t = "int" ->
         IF rawv.k = "str" THEN NumResult(ParseInt(rawv.s), path)
         ELSE IF rawv.k = "num" /\ rawv.e = 0
         THEN Coerced(VNum(rawv.m, rawv.e))
         ELSE Mismatch(path)
    [] type.t = "float" ->
         IF rawv.k = "str" THEN NumResult(ParseFloat(rawv.s), path)
         ELSE IF rawv.k = "num" THEN Coerced(VNum(rawv.m, rawv.e))
         ELSE Mismatch(path)
    [] type.t = "bool" ->
         IF rawv.k = "str" THEN BoolResult(ParseBool(rawv.s), path)
         ELSE IF rawv.k = "bool" THEN Coerced(VBool(rawv.b))
         ELSE Mismatch(path)
    [] type.t = "url" ->
         IF rawv.k = "str" /\ (HasPrefix(rawv.s, S_http) \/ HasPrefix(rawv.s, S_https))
         THEN Coerced(VStr(rawv.s))
         ELSE Mismatch(path)
    [] type.t = "enum" ->
         IF rawv.k = "str" /\ \E i \in 1..Len(type.allowed) : type.allowed[i] = rawv.s
         THEN Coerced(VStr(rawv.s))
         ELSE [errs |-> <<Err(path, "UnknownEnumValue", type.allowed)>>,
               val |-> VNone]
    [] type.t = "obj" ->
         IF rawv.k = "obj" THEN ObjResult(Validate(type.schema, rawv.o, path))
         ELSE Mismatch(path)
    [] type.t \in {"list", "set"} ->
         IF rawv.k # "list" THEN Mismatch(path)
         ELSE IF type.t = "list"
         THEN ListResult(CoerceElems(type.elem, rawv.xs, path, 1))
         ELSE SetResult(CoerceElems(type.elem, rawv.xs, path, 1))

\* The elements xs[i..] coerced independently, errors under indexed paths.
CoerceElems(elem, xs, path, i) ==
  IF i > Len(xs) THEN [errs |-> <<>>, vals |-> <<>>]
  ELSE ElemsResult(Coerce(elem, xs[i], Append(path, IdxName(i - 1))),
                   CoerceElems(elem, xs, path, i + 1))

\* Steps 1 to 4 for one field f of the raw mapping o.
ValidateField(f, o, path) ==
  IF f.name \notin DOMAIN o
  THEN IF f.required
       THEN [errs |-> <<Err(path, "MissingField", <<>>)>>, val |-> VNone]
       ELSE Coerced(f.default)
  ELSE IF f.nullable /\ o[f.name] = RNull
  THEN Coerced(VNone)
  ELSE FieldResult(f, Coerce(f.type, o[f.name], path), path)

\* The fields i.. of the schema, in declaration order.
ValidateFields(schema, o, prefix, i) ==
  IF i > Len(schema.fields) THEN [errs |-> <<>>, val |-> EmptyMap]
  ELSE FieldsResult(schema.fields[i].name,
                    ValidateField(schema.fields[i], o,
                                  Append(prefix, schema.fields[i].name)),
                    ValidateFields(schema, o, prefix, i + 1))

FieldNames(schema) == {schema.fields[i].name : i \in 1..Len(schema.fields)}

ExtraKeys(ks, prefix) ==
  [i \in 1..Len(ks) |-> Err(Append(prefix, ks[i]), "ForbiddenExtraField", <<>>)]

\* Step 5: the raw keys no field declares, when the schema forbids them.
ExtraErrors(schema, o, prefix) ==
  IF schema.extra_forbid
  THEN ExtraKeys(SetToSeq(DOMAIN o \ FieldNames(schema)), prefix)
  ELSE <<>>

ValidateSchema(schema, o, prefix) ==
  SchemaResult(ValidateFields(schema, o, prefix, 1),
               ExtraErrors(schema, o, prefix))

\* validate(schema, raw): the collected errors and the coerced mapping.
Validate(name, o, prefix) == ValidateSchema(SchemaOf(name), o, prefix)

\* A ValidationResult is the coerced mapping or the errors, never both.
ResultValue(r) == IF r.errs = <<>> THEN r.val ELSE EmptyMap

\* The elements of a coerced list or set as a sequence.
Elements(v) == IF v.k = "set" THEN SetToSeq(v.S) ELSE v.xs

\* A coerced value as a raw input: numbers as text when textual, else typed.
RECURSIVE ToRaw(_, _)
ToRaw(v, textual) ==
  CASE v.k = "none" -> RNull
    [] v.k = "str" -> RStr(v.s)
    [] v.k = "num" -> IF textual THEN RStr(FormatNum(v.m, v.e)) ELSE RNum(v.m, v.e)
    [] v.k = "bool" -> IF textual THEN RStr(IF v.b THEN S_true ELSE S_false)
                       ELSE RBool(v.b)
    [] v.k \in {"set", "list"} ->
         RList([i \in 1..Len(Elements(v)) |-> ToRaw(Elements(v)[i], textual)])
    [] v.k = "obj" -> RObj([key \in DOMAIN v.o |-> ToRaw(v.o[key], textual)])

ToRawMap(m, textual) == [key \in DOMAIN m |-> ToRaw(m[key], textual)]

(***************************************************************************)
(* The requests the model sends: for every field a few raw values, among   *)
(* them the absent one, and every combination of them.                     *)
(***************************************************************************)
Absent == [k |-> "absent"]

\* The mapping f without the keys whose value is Absent.
MkMap(f) == [key \in {x \in DOMAIN f : f[x] # Absent} |-> f[key]]

S_minus5 == <<"-", "5">>
S_item1 == <<"i", "t", "e", "m", " ", "1">>
S_item2 == <<"i", "t", "e", "m", " ", "2">>
S_item3 == <<"i", "t", "e", "m", " ", "3">>
S_url == S_https \o <<"a", ".", "b">>

TagAlphabet == {RStr(<<"a">>), RStr(<<"b">>)}

TagLists == UNION {[1..n -> TagAlphabet] : n \in 0..MaxTags}

ImageRaws ==
  { Absent,
    RNull,
    RList(<<RObj(("url" :> RStr(S_url)) @@ ("name" :> RStr(S_Foo)))>>),
    RList(<<RObj("url" :> RStr(S_Foo))>>) }

ItemRaws ==
  { MkMap([name |-> n, description |-> d, price |-> p, tax |-> t,
           tags |-> g, images |-> im]) :
      n \in {Absent, RStr(S_Foo), RNum(5, 0)},
      d \in {Absent, RNull, RStr(Repeat("x", 300)), RStr(Repeat("x", 301))},
      p \in {Absent, RStr(S_minus5), RStr(<<"0">>), RStr(<<"0", ".", "5">>),
             RStr(<<"a", "b", "c">>), RNum(354, 1)},
      t \in {Absent, RStr(<<"3", ".", "2">>)},
      g \in {Absent, RStr(<<"a">>)} \cup {RList(xs) : xs \in TagLists},
      im \in ImageRaws }

\* A few items for the bodies that nest an Item.
ItemSamples ==
  { RObj(("name" :> RStr(S_Foo)) @@ ("price" :> RNum(354, 1))),
    RObj(("name" :> RStr(S_Foo)) @@ ("price" :> RStr(<<"0">>))),
    RObj(("price" :> RStr(S_minus5)) @@ ("description" :> RStr(Repeat("x", 301)))) }

ItemLists == UNION {[1..n -> ItemSamples] : n \in 0..MaxItems}

OfferRaws ==
  { MkMap([name |-> n, description |-> d, price |-> p, items |-> its]) :
      n \in {Absent, RStr(S_Foo)},
      d \in {Absent, RStr(Repeat("x", 301))},
      p \in {Absent, RStr(S_minus5), RStr(<<"0">>), RNum(5, 0)},
      its \in {Absent, RNull} \cup {RList(xs) : xs \in ItemLists} }

\* Query parameters are strings or lists of strings.
FilterRaws ==
  { MkMap([limit |-> l, offset |-> o, order_by |-> ob, tags |-> g,
           bogus |-> x, zzz |-> y]) :
      l \in {Absent, RStr(<<"0">>), RStr(<<"1">>), RStr(<<"1", "0", "0">>),
             RStr(<<"1", "0", "1">>), RStr(<<"a", "b", "c">>)},
      o \in {Absent, RStr(<<"-", "1">>), RStr(<<"0">>)},
      ob \in {Absent, RStr(S_updated_at), RStr(S_name)},
      g \in {Absent, RList(<<RStr(<<"a">>)>>)},
      x \in {Absent, RStr(<<"1">>)},
      y \in {Absent, RStr(<<"1">>)} }

CookieRaws ==
  { EmptyMap,
    "session_id" :> RStr(<<"s", "1">>),
    ("session_id" :> RStr(<<"s", "1">>)) @@ ("other_cookie" :> RStr(<<"1">>)) }

HeaderRaws ==
  { EmptyMap,
    "save_data" :> RStr(S_true),
    "save_data" :> RStr(S_Foo),
    "x_tag" :> RList(<<RStr(<<"a">>)>>) }

\* The query string, the cookies and the headers are always there, possibly
\* empty.
ReadItemsRaws ==
  { [filter_query |-> RObj(q), ads_id |-> RObj(c), headers |-> RObj(h)] :
      q \in FilterRaws, c \in CookieRaws, h \in HeaderRaws }

\* A path parameter is always present: it is part of the matched path.
ReadItemRaws ==
  { [item_id |-> RStr(s)] :
      s \in {<<"-", "3">>, <<"-", "1">>, <<"0">>, <<"1">>, <<"2">>, <<"3">>,
             <<"4">>, <<"a", "b", "c">>} }

GetModelRaws ==
  { [model_name |-> RStr(s)] :
      s \in {S_alexnet, S_resnet, S_lenet, S_vgg, S_AlexNet, S_name} }

UserRaws ==
  { Absent, RNull,
    RObj("username" :> RStr(S_Foo)),
    RObj("full_name" :> RStr(S_Foo)) }

UpdateItemRaws ==
  { MkMap([item_id |-> id, importance |-> imp, item |-> it, user |-> u]) :
      id \in {RStr(<<"-", "1">>), RStr(<<"0">>), RStr(<<"1", "0", "0", "0">>),
              RStr(<<"1", "0", "0", "1">>)},
      imp \in {Absent, RNum(0, 0), RNum(1, 0), RNum(10, 0), RNum(11, 0)},
      it \in {Absent, RNull} \cup ItemSamples,
      u \in UserRaws }

Routes ==
  {"read_items", "read_item", "get_model", "create_item", "create_offer",
   "update_item"}

RawInputs(rt) ==
  CASE rt = "read_items" -> ReadItemsRaws
    [] rt = "read_item" -> ReadItemRaws
    [] rt = "get_model" -> GetModelRaws
    [] rt = "create_item" -> ItemRaws
    [] rt = "create_offer" -> OfferRaws
    [] rt = "update_item" -> UpdateItemRaws

(***************************************************************************)
(* The handlers, as the response each computes from its validated          *)
(* parameters.  Status 500 is an exception escaping the handler.           *)
(***************************************************************************)
ServerError == [status |-> 500]

Ok(body) == [status |-> 200, body |-> body]

FakeItemsDb ==
  << ("name" :> RStr(S_item1)) @@ ("price" :> RNum(199, 2)),
     ("name" :> RStr(S_item2)) @@ ("price" :> RNum(299, 2)),
     ("name" :> RStr(S_item3)) @@ ("price" :> RNum(399, 2)) >>

\* list[i] of Python: a negative index counts from the end.
PyIndexInRange(list, i) == 0 - Len(list) <= i /\ i < Len(list)

PyIndex(list, i) == IF i < 0 THEN list[Len(list) + i + 1] ELSE list[i + 1]

\* A returned value through response_model: validated, or a server error.
Included(r, include) ==
  IF r.errs # <<>> THEN ServerError
  ELSE Ok([key \in DOMAIN r.val \cap include |-> r.val[key]])

ResponseModel(name, o, include) == Included(Validate(name, o, <<>>), include)

ReadItemResult(db, item_id) ==
  IF ~PyIndexInRange(db, item_id) THEN ServerError
  ELSE ResponseModel("Item", PyIndex(db, item_id), {"tax"})

GetModelResult(model_name) ==
  IF model_name = VStr(S_alexnet)
  THEN Ok([model_name |-> model_name, message |-> "Deep Learning FTW!"])
  ELSE IF model_name = VStr(S_lenet)
  THEN Ok([model_name |-> model_name, message |-> "LeCNN all the images"])
  ELSE Ok([model_name |-> model_name, message |-> "Have some residuals"])

CreateItemResult(item) ==
  ResponseModel("Item", ToRawMap(item, FALSE), FieldNames(Item))

CreateOfferResult(offer) == Ok(offer)

\* list[Item | dict]: an element is an Item when it validates as one.
FirstOf(r, o) == IF r.errs = <<>> THEN VObj(r.val) ELSE [k |-> "dict", o |-> o]

ItemOrDict(o) == FirstOf(Validate("Item", o, <<>>), o)

ReadItemsResult(filter_query, ads_id, headers) ==
  LET results ==
        << ("name" :> RStr(<<"P", "o", "r", "t", "a", "l">>)) @@ ("price" :> RNum(42, 0)),
           ("name" :> RStr(<<"P", "l", "u", "m", "b", "u", "s">>)) @@ ("price" :> RNum(32, 0)),
           [filter_query |-> [k |-> "json", v |-> filter_query]],
           [ads_id |-> [k |-> "json", v |-> ads_id]],
           [headers |-> [k |-> "json", v |-> headers]] >>
  IN Ok([i \in 1..Len(results) |-> ItemOrDict(results[i])])

UpdateItemResult_NoneChecked(item_id, importance, item, user) ==
  Ok(("importance" :> importance)
       @@ (IF user = VNone THEN EmptyMap ELSE user.o)
       @@ (IF item = VNone THEN EmptyMap ELSE item.o)
       @@ ("item_id" :> item_id))

\* {"item_id": .., **item.model_dump(), **user.model_dump(), "importance": ..}:
\* a later key wins, and model_dump of None raises.
UpdateItemResult(item_id, importance, item, user) ==
  IF item = VNone \/ user = VNone THEN ServerError
  ELSE Ok(("importance" :> importance) @@ user.o @@ item.o
            @@ ("item_id" :> item_id))

(***************************************************************************)
(* The server: a request is received, validated against the parameters of  *)
(* its route, and then rejected or handled.                                *)
(***************************************************************************)
NoResponse == [status |-> 0]

Init ==
  /\ pc = "idle"
  /\ route = "none"
  /\ raw = EmptyMap
  /\ errors = <<>>
  /\ coerced = EmptyMap
  /\ response = NoResponse
  /\ fake_items_db = FakeItemsDb

Receive ==
  /\ pc = "idle"
  /\ \E rt \in Routes : \E r \in RawInputs(rt) :
       /\ route' = rt
       /\ raw' = r
  /\ pc' = "received"
  /\ UNCHANGED <<errors, coerced, response, fake_items_db>>

Validated(r) ==
  /\ errors' = r.errs
  /\ coerced' = ResultValue(r)

ValidateRequest ==
  /\ pc = "received"
  /\ Validated(Validate(route, raw, <<>>))
  /\ pc' = "validated"
  /\ UNCHANGED <<route, raw, response, fake_items_db>>

\* The errors go back to the client and the handler does not run.
Reject ==
  /\ pc = "validated"
  /\ errors # <<>>
  /\ response' = [status |-> 422, detail |-> errors]
  /\ pc' = "responded"
  /\ UNCHANGED <<route, raw, errors, coerced, fake_items_db>>

\* A handler runs for its route once the request has validated.
Handles(rt) == pc = "validated" /\ errors = <<>> /\ route = rt

read_items ==
  /\ Handles("read_items")
  /\ response' = ReadItemsResult(coerced["filter_query"], coerced["ads_id"],
                                 coerced["headers"])
  /\ pc' = "responded"
  /\ UNCHANGED <<route, raw, errors, coerced, fake_items_db>>

read_item ==
  /\ Handles("read_item")
  /\ response' = ReadItemResult(fake_items_db, coerced["item_id"].m)
  /\ pc' = "responded"
  /\ UNCHANGED <<route, raw, errors, coerced, fake_items_db>>

get_model ==
  /\ Handles("get_model")
  /\ response' = GetModelResult(coerced["model_name"])
  /\ pc' = "responded"
  /\ UNCHANGED <<route, raw, errors, coerced, fake_items_db>>

create_item ==
  /\ Handles("create_item")
  /\ response' = CreateItemResult(coerced)
  /\ pc' = "responded"
  /\ UNCHANGED <<route, raw, errors, coerced, fake_items_db>>

create_offer ==
  /\ Handles("create_offer")
  /\ response' = CreateOfferResult(coerced)
  /\ pc' = "responded"
  /\ UNCHANGED <<route, raw, errors, coerced, fake_items_db>>

update_item ==
  /\ Handles("update_item")
  /\ response' = UpdateItemResult(coerced["item_id"], coerced["importance"],
                                  coerced["item"], coerced["user"])
  /\ pc' = "responded"
  /\ UNCHANGED <<route, raw, errors, coerced, fake_items_db>>

\* The response is sent; nothing of the request is kept.
Finish ==
  /\ pc = "responded"
  /\ pc' = "idle"
  /\ route' = "none"
  /\ raw' = EmptyMap
  /\ errors' = <<>>
  /\ coerced' = EmptyMap
  /\ response' = NoResponse
  /\ UNCHANGED fake_items_db

Next ==
  \/ Receive
  \/ ValidateRequest
  \/ Reject
  \/ read_items
  \/ read_item
  \/ get_model
  \/ create_item
  \/ create_offer
  \/ update_item
  \/ Finish

Spec == Init /\ [][Next]_vars

(***************************************************************************)
(* Properties.                                                             *)
(***************************************************************************)
\* The request has been validated: errors and coerced are validate's result.
AfterValidation == pc \in {"validated", "responded"}

ErrorsAt(path) == {j \in 1..Len(errors) : errors[j].path = path}

ErrorsUnder(name) == SelectSeq(errors, LAMBDA e : e.path[1] = name)

HasError(path, kind) == \E j \in 1..Len(errors) : errors[j] = Err(path, kind, <<>>)

Success == errors = <<>>

\* The position of a top-level field in its schema; past the end for a key
\* the schema does not declare.
FieldIndex(schema, name) ==
  IF \E i \in 1..Len(schema.fields) : schema.fields[i].name = name
  THEN CHOOSE i \in 1..Len(schema.fields) : schema.fields[i].name = name
  ELSE Len(schema.fields) + 1

\* The items of the Offer in the request, when they are a list.
OfferItems ==
  IF "items" \in DOMAIN raw /\ raw["items"].k = "list" THEN raw["items"].xs
  ELSE <<>>

\* C1: after validation, every required field that the raw input lacks has
\* exactly one error, of kind MissingField, and no error of another kind:
\* for the parameters of every route, for an Item without name, and for the
\* Items nested in an Offer.
C1_MissingFieldExactlyOnce ==
  AfterValidation =>
    /\ \A i \in 1..Len(SchemaOf(route).fields) :
         LET f == SchemaOf(route).fields[i]
         IN (f.required /\ f.name \notin DOMAIN raw) =>
              /\ Cardinality(ErrorsAt(<<f.name>>)) = 1
              /\ ErrorsUnder(f.name) = <<Err(<<f.name>>, "MissingField", <<>>)>>
    /\ (route = "create_item" /\ "name" \notin DOMAIN raw) =>
         ErrorsUnder("name") = <<Err(<<"name">>, "MissingField", <<>>)>>
    /\ route = "create_offer" =>
         \A i \in 1..Len(OfferItems) :
           "name" \notin DOMAIN OfferItems[i].o =>
             LET path == <<"items", IdxName(i - 1), "name">>
             IN /\ Cardinality(ErrorsAt(path)) = 1
                /\ HasError(path, "MissingField")

C1_Witness ==
  /\ pc = "validated"
  /\ route = "create_item"
  /\ "name" \notin DOMAIN raw
  /\ "price" \in DOMAIN raw
  /\ errors = <<Err(<<"name">>, "MissingField", <<>>)>>

\* C2: validate collects the errors of every offending field, in declaration
\* order, and returns the coerced mapping exactly when there is no error.
\* For an Offer: a missing name, a price that is not positive and missing
\* items are all reported together, name before price before items, and the
\* errors of the nested items are ordered by index and then by field.
C2_AllErrorsInDeclarationOrder ==
  AfterValidation =>
    /\ Success <=> DOMAIN coerced = FieldNames(SchemaOf(route))
    /\ ~Success => coerced = EmptyMap
    /\ \A i \in 1..Len(SchemaOf(route).fields) :
         LET f == SchemaOf(route).fields[i]
         IN ErrorsUnder(f.name) = ValidateField(f, raw, <<f.name>>).errs
    /\ \A j, k \in 1..Len(errors) :
         j < k => FieldIndex(SchemaOf(route), errors[j].path[1])
                    <= FieldIndex(SchemaOf(route), errors[k].path[1])
    /\ route = "create_offer" =>
         /\ "name" \notin DOMAIN raw => HasError(<<"name">>, "MissingField")
         /\ ("price" \in DOMAIN raw /\ raw["price"] \in {RStr(S_minus5), RStr(<<"0">>)})
              => HasError(<<"price">>, "OutOfRange")
         /\ "items" \notin DOMAIN raw => HasError(<<"items">>, "MissingField")
         /\ \A j, k \in 1..Len(errors) :
              (errors[j].path = <<"name">> /\ errors[k].path = <<"price">>) => j < k
         /\ \A j, k \in 1..Len(errors) :
              (/\ j < k
               /\ Len(errors[j].path) = 3 /\ errors[j].path[1] = "items"
               /\ Len(errors[k].path) = 3 /\ errors[k].path[1] = "items")
              => \/ DigitVal(errors[j].path[2]) < DigitVal(errors[k].path[2])
                 \/ /\ errors[j].path[2] = errors[k].path[2]
                    /\ FieldIndex(Item, errors[j].path[3])
                         <= FieldIndex(Item, errors[k].path[3])

C2_Witness ==
  /\ pc = "validated"
  /\ route = "create_offer"
  /\ Len(OfferItems) = 2
  /\ errors = << Err(<<"name">>, "MissingField", <<>>),
                 Err(<<"price">>, "OutOfRange", <<>>),
                 Err(<<"items", "0", "price">>, "OutOfRange", <<>>),
                 Err(<<"items", "1", "name">>, "MissingField", <<>>),
                 Err(<<"items", "1", "description">>, "TooLong", <<>>),
                 Err(<<"items", "1", "price">>, "OutOfRange", <<>>) >>

\* A coerced value within the bounds the source declares for it.
Positive(v) == v.k = "num" /\ v.m > 0

Within(v, lo, hi) == v.k = "num" /\ v.e = 0 /\ lo <= v.m /\ v.m <= hi

ShortEnough(v) == v = VNone \/ (v.k = "str" /\ Len(v.s) <= 300)

ItemWithinBounds(o) == Positive(o["price"]) /\ ShortEnough(o["description"])

\* C4: a successful result satisfies the declared constraints: the price of
\* an Item or Offer is positive and its description has at most 300
\* characters (also in nested Items), limit is in 1..100, offset is not
\* negative, the item_id and importance are in their ranges.  A price of
\* "-5" or "0" gives an OutOfRange error on price and no success.
C4_SuccessSatisfiesConstraints ==
  AfterValidation =>
    /\ Success =>
         /\ \A i \in 1..Len(SchemaOf(route).fields) :
              LET f == SchemaOf(route).fields[i]
              IN CheckConstraints(f.cons, coerced[f.name], <<f.name>>) = <<>>
         /\ route = "create_item" => ItemWithinBounds(coerced)
         /\ route = "create_offer" =>
              /\ ItemWithinBounds(coerced)
              /\ \A i \in 1..Len(coerced["items"].xs) :
                   ItemWithinBounds(coerced["items"].xs[i].o)
         /\ route = "read_items" =>
              /\ Within(coerced["filter_query"].o["limit"], 1, 100)
              /\ coerced["filter_query"].o["offset"].m >= 0
         /\ route = "read_item" => Within(coerced["item_id"], 0, 2)
         /\ route = "update_item" =>
              /\ Within(coerced["item_id"], 0, 1000)
              /\ Within(coerced["importance"], 1, 10)
              /\ coerced["item"] # VNone => ItemWithinBounds(coerced["item"].o)
    /\ (/\ route \in {"create_item", "create_offer"}
        /\ "price" \in DOMAIN raw
        /\ raw["price"] \in {RStr(S_minus5), RStr(<<"0">>)})
       => /\ ~Success
          /\ ErrorsUnder("price") = <<Err(<<"price">>, "OutOfRange", <<>>)>>
          /\ pc = "responded" => response.status = 422

C4_Witness ==
  /\ pc = "responded"
  /\ route = "create_item"
  /\ "price" \in DOMAIN raw
  /\ raw["price"] = RStr(<<"0">>)
  /\ errors = <<Err(<<"price">>, "OutOfRange", <<>>)>>
  /\ response.status = 422

\* C5: a model_name that is not exactly alexnet, resnet or lenet gives the
\* single error UnknownEnumValue on model_name, whose message is the list
\* alexnet, resnet, lenet; nothing is coerced and get_model does not run.
\* An order_by outside its literals is rejected the same way.
C5_UnknownEnumValueListsAllowed ==
  AfterValidation =>
    /\ route = "get_model" =>
         IF raw["model_name"].s \in {S_alexnet, S_resnet, S_lenet}
         THEN Success /\ coerced["model_name"] = VStr(raw["model_name"].s)
         ELSE /\ errors = << Err(<<"model_name">>, "UnknownEnumValue",
                                 <<S_alexnet, S_resnet, S_lenet>>) >>
              /\ "model_name" \notin DOMAIN coerced
              /\ pc = "responded" => response.status = 422
    /\ (/\ route = "read_items"
        /\ "order_by" \in DOMAIN raw["filter_query"].o
        /\ raw["filter_query"].o["order_by"].s \notin {S_created_at, S_updated_at})
       => /\ \E j \in 1..Len(errors) :
               errors[j] = Err(<<"filter_query", "order_by">>, "UnknownEnumValue",
                               <<S_created_at, S_updated_at>>)
          /\ coerced = EmptyMap

C5_Witness ==
  /\ pc = "responded"
  /\ route = "get_model"
  /\ raw["model_name"] = RStr(S_AlexNet)
  /\ response.status = 422
  /\ response.detail[1].kind = "UnknownEnumValue"

\* The keys of the query that FilterParams does not declare.
ExtraQueryKeys ==
  DOMAIN raw["filter_query"].o \ {"limit", "offset", "order_by", "tags"}

\* C6: every key of the query that FilterParams does not declare gives one
\* ForbiddenExtraField error on that key, after the errors of the declared
\* fields of FilterParams, and the request is rejected; the schemas that do
\* not forbid extras (the cookies, the headers, every other route) never
\* give a ForbiddenExtraField error.
C6_ForbiddenExtraFields ==
  AfterValidation =>
    /\ route = "read_items" =>
         /\ \A key \in ExtraQueryKeys :
              /\ Cardinality(ErrorsAt(<<"filter_query", key>>)) = 1
              /\ HasError(<<"filter_query", key>>, "ForbiddenExtraField")
         /\ ExtraQueryKeys # {} =>
              /\ ~Success
              /\ coerced = EmptyMap
              /\ pc = "responded" => response.status = 422
         /\ \A j, k \in 1..Len(errors) :
              (/\ errors[j].kind = "ForbiddenExtraField"
               /\ errors[k].kind # "ForbiddenExtraField"
               /\ errors[k].path[1] = "filter_query") => k < j
    /\ \A j \in 1..Len(errors) :
         errors[j].kind = "ForbiddenExtraField" =>
           /\ route = "read_items"
           /\ Len(errors[j].path) = 2
           /\ errors[j].path[1] = "filter_query"
           /\ errors[j].path[2] \in ExtraQueryKeys

C6_Witness ==
  /\ pc = "validated"
  /\ route = "read_items"
  /\ ExtraQueryKeys = {"bogus", "zzz"}
  /\ "other_cookie" \in DOMAIN raw["ads_id"].o
  /\ Len(errors) = 3
  /\ errors[1] = Err(<<"filter_query", "limit">>, "OutOfRange", <<>>)
  /\ errors[2].kind = "ForbiddenExtraField"
  /\ errors[3].kind = "ForbiddenExtraField"

\* C7: when validation succeeds, validating the coerced mapping again, given
\* as raw input (numbers as text, or as typed values), succeeds with the
\* same coerced mapping; create_item, whose response goes through Item
\* again, answers with the item it was given.
C7_RevalidationIsIdentity ==
  (AfterValidation /\ Success) =>
    /\ Validate(route, ToRawMap(coerced, TRUE), <<>>) = [errs |-> <<>>, val |-> coerced]
    /\ Validate(route, ToRawMap(coerced, FALSE), <<>>) = [errs |-> <<>>, val |-> coerced]
    /\ (pc = "responded" /\ route = "create_item") => response = Ok(coerced)

C7_Witness ==
  /\ pc = "responded"
  /\ route = "create_item"
  /\ Success
  /\ raw["price"] = RStr(<<"0", ".", "5">>)
  /\ "tags" \in DOMAIN raw /\ raw["tags"].k = "list" /\ Len(raw["tags"].xs) = 3
  /\ "images" \in DOMAIN raw /\ raw["images"].k = "list"
  /\ response = Ok(coerced)
  /\ ToRawMap(coerced, TRUE)["price"] = raw["price"]
  /\ ToRawMap(coerced, TRUE) # raw

\* The tags of the request are a list of strings.
TagsGiven == "tags" \in DOMAIN raw /\ raw["tags"].k = "list"

\* C8: for an Item, tags given as a list of strings never give an error and
\* coerce to the set of the distinct strings; without tags the coerced
\* value is the empty set.
C8_TagsAreDeduplicated ==
  (AfterValidation /\ route = "create_item") =>
    /\ (TagsGiven \/ "tags" \notin DOMAIN raw) => ErrorsUnder("tags") = <<>>
    /\ (Success /\ TagsGiven) =>
         /\ coerced["tags"] =
              VSet({VStr(raw["tags"].xs[i].s) : i \in 1..Len(raw["tags"].xs)})
         /\ raw["tags"].xs = <<RStr(<<"a">>), RStr(<<"a">>), RStr(<<"b">>)>> =>
              Cardinality(coerced["tags"].S) = 2
    /\ (Success /\ "tags" \notin DOMAIN raw) => coerced["tags"] = VSet({})

C8_Witness ==
  /\ pc = "validated"
  /\ route = "create_item"
  /\ TagsGiven
  /\ raw["tags"].xs = <<RStr(<<"a">>), RStr(<<"a">>), RStr(<<"b">>)>>
  /\ Success
  /\ coerced["tags"] = VSet({VStr(<<"a">>), VStr(<<"b">>)})

\* The optional body is omitted (or null) in the request.
Omitted(name) == name \notin DOMAIN raw \/ raw[name] = RNull

\* C9: for update_item an omitted item or user gives no validation error
\* and the value None; the handler answers with a result exactly when both
\* are present, and otherwise ends with a server error.
C9_UpdateItemDereferencesNone ==
  (AfterValidation /\ route = "update_item") =>
    /\ \A name \in {"item", "user"} :
         Omitted(name) =>
           /\ ErrorsUnder(name) = <<>>
           /\ Success => coerced[name] = VNone
    /\ (pc = "responded" /\ Success) =>
         IF Omitted("item") \/ Omitted("user")
         THEN response = ServerError
         ELSE /\ response.status = 200
              /\ DOMAIN response.body =
                   {"item_id", "importance"} \cup FieldNames(Item)
                     \cup FieldNames(BaseUser)

C9_Witness ==
  /\ pc = "responded"
  /\ route = "update_item"
  /\ "item" \notin DOMAIN raw
  /\ "user" \in DOMAIN raw /\ raw["user"] # RNull
  /\ Success
  /\ response = ServerError

\* C10: fake_items_db keeps its 3 entries, read_item runs only for an
\* item_id in 0..2 and then answers from the entry at that index, and an
\* item_id outside 0..2 is rejected with an OutOfRange error.
C10_ReadItemIndexInRange ==
  /\ Len(fake_items_db) = 3
  /\ fake_items_db = FakeItemsDb
  /\ (AfterValidation /\ route = "read_item") =>
       /\ Success =>
            /\ 0 <= coerced["item_id"].m
            /\ coerced["item_id"].m < Len(fake_items_db)
            /\ pc = "responded" => response = Ok("tax" :> VNone)
       /\ raw["item_id"].s \in {<<"-", "3">>, <<"-", "1">>, <<"3">>, <<"4">>} =>
            /\ errors = <<Err(<<"item_id">>, "OutOfRange", <<>>)>>
            /\ pc = "responded" => response.status = 422

C10_Witness ==
  /\ pc = "responded"
  /\ route = "read_item"
  /\ raw["item_id"] = RStr(<<"2">>)
  /\ response = Ok("tax" :> VNone)

====
